---- MODULE Spec2Model ----
(***************************************************************************)
(* Model of the raffle application in src/raffle_multi.py: the per-campaign *)
(* ledger of issued ticket numbers, the donor flow                          *)
(*   charity_page (POST) -> start_hold -> [gateway checkout]                 *)
(*     -> hold_success -> confirm_payment,                                   *)
(* and the operator (admin / partner) handlers that touch the same rows.     *)
(*                                                                           *)
(* Every donor is one browser session issuing one request at a time; the     *)
(* requests of different donors interleave at the database statements and    *)
(* gateway calls of the handlers.  Operator handlers make one commit and     *)
(* are single steps.                                                         *)
(***************************************************************************)
EXTENDS Integers, Sequences, FiniteSets, TLC

(***************************************************************************)
(* Bounds of the model.                                                     *)
(***************************************************************************)
NumDonors == 2          \* concurrent donor sessions
NumSettlers == 1        \* donor sessions of the settlement specification
MaxCapacity == 2        \* largest max_number an operator enters
MaxIntents == 2         \* checkout sessions the gateway creates
MaxEntryId == 3         \* Entry primary keys handed out

(***************************************************************************)
(* Program constants.                                                       *)
(***************************************************************************)
HOLD_AMOUNT_PENCE == 20000
max_retries == 12

Donors == 1..NumDonors
Slug == "thekehilla"

VARIABLES
    charity,    \* slug -> Charity row
    entries,    \* set of Entry rows
    nextId,     \* next Entry primary key
    sess,       \* donor -> Flask session (cookie) of that browser
    intents,    \* gateway: sequence of PaymentIntents, one per checkout session
    gwCalls,    \* gateway: capture / cancel requests received
    req,        \* donor -> the request in flight (handler position and locals)
    flash,      \* the message last flashed to the operator's session
    reveals,    \* the numbers disclosed by api_reveal_number, and to whom
    partner     \* the Flask session of the partner's browser

vars == <<charity, entries, nextId, sess, intents, gwCalls, req, flash,
          reveals, partner>>

Max(a, b) == IF a >= b THEN a ELSE b

(***************************************************************************)
(* Charity.stripe_account_id: the values an operator types, and the test    *)
(* acct.startswith("acct_") applied to the stripped value.                  *)
(***************************************************************************)
AccountIds == {"acct_1", ""}
StartsWithAcct(acct) == acct \in {"acct_1"}

(***************************************************************************)
(* Helpers of the source.                                                   *)
(***************************************************************************)
\* the numbers of the campaign's Entry rows
Taken(slug) == {e.number : e \in {x \in entries : x.charity_id = slug}}

\* available_numbers(c), with c.max_number as the caller's ORM object holds it
available_numbers(slug, max_number) == {i \in 1..max_number : i \notin Taken(slug)}

\* compute_hold_amount_pence(charity)
compute_hold_amount_pence(c) ==
    LET min_hold == c.max_number * 100
        configured == c.hold_amount_pence
    IN  Max(min_hold, IF configured > 0 THEN configured ELSE 0)

\* a table without the unique constraint
NoUniqueConstraint(slug, number, id) == FALSE

\* UNIQUE (charity_id, number): would a row with this key break the constraint,
\* ignoring the row with primary key `id` (the row being updated)
UniqueViolation(slug, number, id) ==
    \E e \in entries : e.charity_id = slug /\ e.number = number /\ e.id # id

\* a refresh that follows the stock both ways: back to live when a number
\* is free again
refresh_both_ways(slug, max_number, status) ==
    IF Cardinality(available_numbers(slug, max_number)) <= 0 /\ status # "sold_out"
    THEN [charity EXCEPT ![slug].campaign_status = "sold_out"]
    ELSE IF available_numbers(slug, max_number) # {} /\ status = "sold_out"
    THEN [charity EXCEPT ![slug].campaign_status = "live"]
    ELSE charity

\* refresh_campaign_status(c): the campaign_status it leaves in the database,
\* given the max_number and campaign_status the caller's ORM object holds
refresh_campaign_status(slug, max_number, status) ==
    IF Cardinality(available_numbers(slug, max_number)) <= 0 /\ status # "sold_out"
    THEN [charity EXCEPT ![slug].campaign_status = "sold_out"]
    ELSE charity

(***************************************************************************)
(* Rows and request records.                                                *)
(***************************************************************************)
\* name stands for the name, email and phone of the row: the donor whose
\* form they came from, 0 for a row an operator typed in
NewEntry(id, slug, number, pi, acct, hold, name) ==
    [id |-> id, charity_id |-> slug, number |-> number, paid |-> FALSE,
     paid_at |-> "none", payment_intent_id |-> pi, stripe_account_id |-> acct,
     hold_amount_pence |-> hold, name |-> name]

EntryById(id) == CHOOSE e \in entries : e.id = id

\* a donor with no request in flight
Idle ==
    [pc |-> "idle", result |-> "", slug |-> "", pi |-> 0, acct |-> "",
     max_number |-> 0, status |-> "", expired |-> FALSE, num |-> 0, tries |-> 0,
     entry_id |-> 0, amount_pence |-> 0, held |-> 0, number |-> 0,
     optional_ok |-> FALSE, name |-> 0]

\* the handler returns: the locals are dropped; the response is recorded for
\* the outcomes of hold_success and confirm_payment ("" for any other page)
Respond(p, result) == [req EXCEPT ![p] = [Idle EXCEPT !.result = result]]

EmptySession ==
    [pending_entry |-> {}, reveal_entry_id |-> 0, revealed_entry_id |-> 0,
     skill_passed |-> FALSE, skill_attempts |-> 0]

(***************************************************************************)
(* Initial state: the database after db.create_all() and the seed, with the *)
(* seeded campaign configured by the operator through edit_charity (a       *)
(* payout account, a small number range and a hold of 50p above the         *)
(* minimum); no Entry, no session data, nothing at the gateway.             *)
(***************************************************************************)
\* a browser that is not logged in as a partner
NoPartner == [partner_ok |-> FALSE, partner_slug |-> ""]

InitCharity(max_number) ==
    [max_number |-> max_number, campaign_status |-> "live", is_live |-> TRUE,
     hold_amount_pence |-> max_number * 100 + 50,
     optional_donation_enabled |-> FALSE, stripe_account_id |-> "acct_1",
     skill_enabled |-> FALSE, skill_configured |-> FALSE]

InitWith(max_number) ==
    /\ charity = [s \in {Slug} |-> InitCharity(max_number)]
    /\ entries = {}
    /\ nextId = 1
    /\ sess = [p \in Donors |-> EmptySession]
    /\ intents = <<>>
    /\ gwCalls = {}
    /\ req = [p \in Donors |-> Idle]
    /\ flash = ""
    /\ reveals = {}
    /\ partner = NoPartner

(***************************************************************************)
(* charity_page: GET and POST both start with refresh_campaign_status; the  *)
(* POST stores the pending request unless the campaign is blocked or the    *)
(* form lacks the name or the email (form_ok = FALSE).                      *)
(***************************************************************************)
\* a page that only looks for sold_out
blocks_sold_out_only(status) == status = "sold_out"

\* is_blocked = status in ("inactive", "sold_out", "coming_soon")
is_blocked(status) == status \in {"inactive", "sold_out", "coming_soon"}

charity_page(p, slug, post, form_ok) ==
    /\ req[p].pc = "idle"
    /\ slug \in DOMAIN charity
    /\ LET refreshed == refresh_campaign_status(slug, charity[slug].max_number,
                                                 charity[slug].campaign_status)
           c == refreshed[slug]
           blocked == is_blocked(c.campaign_status)
       IN  /\ charity' = refreshed
           /\ IF post /\ blocked
              THEN /\ sess' = sess
                   /\ req' = Respond(p, "not_accepting")
              ELSE IF post /\ form_ok
              THEN /\ sess' = [sess EXCEPT ![p] =
                         [@ EXCEPT
                            !.pending_entry =
                                {[slug |-> slug, name |-> p,
                                  hold_amount_pence |-> compute_hold_amount_pence(c)]},
                            !.skill_passed =
                                IF c.skill_enabled THEN FALSE ELSE @,
                            !.skill_attempts =
                                IF c.skill_enabled THEN 0 ELSE @]]
                   /\ req' = Respond(p, "")
              ELSE /\ sess' = sess
                   /\ req' = Respond(p, "")
    /\ UNCHANGED <<entries, nextId, intents, gwCalls, flash, reveals, partner>>

(***************************************************************************)
(* start_hold: creates the manual-capture checkout session at the gateway.  *)
(* gateway_ok is the gateway's answer to Session.create.                    *)
(***************************************************************************)
\* a callback that takes whatever pending request the session holds
pending_any(pending, slug) == pending

\* `if not pending or pending.get("slug") != charity.slug:` the pending
\* request of the session, if it is for this campaign
pending_for(pending, slug) == {pe \in pending : pe.slug = slug}

\* `if charity.skill_enabled and not session.get("skill_passed")`: the
\* request is sent to the skill gate
gate_closed(c, s) == c.skill_enabled /\ ~s.skill_passed

\* a handler without the payout check
payout_unchecked(c) == TRUE

\* acct = (charity.stripe_account_id or "").strip(); acct.startswith("acct_")
payout_connected(c) == StartsWithAcct(c.stripe_account_id)

\* a handler that authorises the pending request's amount as it is
requested_hold(hold_amount_pence, min_hold) == hold_amount_pence

\* if hold_amount_pence < min_hold: hold_amount_pence = min_hold
enforce_min_hold(hold_amount_pence, min_hold) ==
    IF hold_amount_pence < min_hold THEN min_hold ELSE hold_amount_pence

start_hold(p, slug, gateway_ok) ==
    /\ req[p].pc = "idle"
    /\ slug \in DOMAIN charity
    /\ Len(intents) < MaxIntents
    /\ LET c == charity[slug]
           pending == sess[p].pending_entry
           found == \E pe \in pending : pe.slug = slug
           pe == CHOOSE x \in pending : TRUE
           min_hold == c.max_number * 100
           hold_amount_pence == enforce_min_hold(pe.hold_amount_pence, min_hold)
           acct == c.stripe_account_id
       IN  IF ~found
           THEN /\ req' = Respond(p, "")
                /\ intents' = intents
           ELSE IF gate_closed(c, sess[p])
           THEN /\ req' = Respond(p, "to_skill_gate")
                /\ intents' = intents
           ELSE IF ~payout_connected(c)
           THEN /\ req' = Respond(p, "payout_missing")
                /\ intents' = intents
           ELSE IF ~gateway_ok
           THEN /\ req' = Respond(p, "hold_failed")
                /\ intents' = intents
           ELSE /\ intents' = Append(intents,
                        [amount |-> hold_amount_pence,
                         status |-> "requires_payment_method",
                         acct |-> acct, donor |-> p, entry_id |-> 0,
                         amount_captured |-> 0])
                /\ req' = Respond(p, "")
    /\ UNCHANGED <<charity, entries, nextId, sess, gwCalls, flash, reveals,
                 partner>>

(***************************************************************************)
(* skill_gate and authorise_hold.  skill_configured stands for a question   *)
(* and a correct answer both being set.  A response that redirects is       *)
(* recorded as the page it names; the browser's next request is the donor's. *)
(***************************************************************************)
\* the attempts after which skill_gate locks the donor out
MaxSkillAttempts == 3

\* skill_gate (GET, or the fetch POST of an answer among the options shown)
skill_gate(p, slug, post, correct) ==
    /\ req[p].pc = "idle"
    /\ slug \in DOMAIN charity
    /\ LET c == charity[slug]
           s == sess[p]
           attempts == s.skill_attempts + 1
       IN  IF pending_for(s.pending_entry, slug) = {}
           THEN sess' = sess /\ req' = Respond(p, "no_details")
           ELSE IF ~c.skill_enabled \/ ~c.skill_configured
           THEN sess' = sess /\ req' = Respond(p, "to_authorise")
           ELSE IF ~post
           THEN sess' = sess /\ req' = Respond(p, "question")
           ELSE IF correct
           THEN /\ sess' = [sess EXCEPT ![p].skill_passed = TRUE]
                /\ req' = Respond(p, "to_authorise")
           ELSE IF attempts >= MaxSkillAttempts
           THEN /\ sess' = [sess EXCEPT ![p].pending_entry = {},
                                        ![p].skill_passed = FALSE,
                                        ![p].skill_attempts = 0]
                /\ req' = Respond(p, "locked")
           ELSE /\ sess' = [sess EXCEPT ![p].skill_attempts = attempts]
                /\ req' = Respond(p, "question")
    /\ UNCHANGED <<charity, entries, nextId, intents, gwCalls, flash, reveals,
                   partner>>

\* authorise_hold (GET): the page whose form posts to start_hold
authorise_hold(p, slug) ==
    /\ req[p].pc = "idle"
    /\ slug \in DOMAIN charity
    /\ IF pending_for(sess[p].pending_entry, slug) = {}
       THEN req' = Respond(p, "no_details")
       ELSE IF gate_closed(charity[slug], sess[p])
       THEN req' = Respond(p, "to_skill_gate")
       ELSE req' = Respond(p, "authorise_page")
    /\ UNCHANGED <<charity, entries, nextId, sess, intents, gwCalls, flash,
                   reveals, partner>>

(***************************************************************************)
(* The donor completes the gateway's checkout page: the card is authorised  *)
(* and the PaymentIntent waits for capture.                                 *)
(***************************************************************************)
checkout_authorised(pi) ==
    /\ pi \in DOMAIN intents
    /\ intents[pi].status = "requires_payment_method"
    /\ intents' = [intents EXCEPT ![pi].status = "requires_capture"]
    /\ UNCHANGED <<charity, entries, nextId, sess, gwCalls, req, flash,
                 reveals, partner>>

(***************************************************************************)
(* hold_success, the success_url of the checkout session.                   *)
(*                                                                           *)
(* hs_verify: loads the campaign, retrieves the checkout session `sid` from *)
(* the gateway, checks the PaymentIntent status and the pending request.    *)
(* The donor presents a session id of a checkout of their own, or one the   *)
(* gateway does not know (Session.retrieve raises).                         *)
(***************************************************************************)
\* a callback that takes any PaymentIntent the gateway returns
any_status(status) == TRUE

\* valid_statuses = ("requires_capture", "succeeded")
valid_status(status) == status \in {"requires_capture", "succeeded"}

hs_verify(p, slug, sid) ==
    /\ req[p].pc = "idle"
    /\ slug \in DOMAIN charity
    /\ sid \in DOMAIN intents => intents[sid].donor = p
    /\ LET c == charity[slug]
           acct == c.stripe_account_id
           retrieved == sid \in DOMAIN intents /\ intents[sid].acct = acct
           payment_intent == intents[sid]
           pending == sess[p].pending_entry
       IN  IF ~retrieved
           THEN req' = Respond(p, "not_verified")
           ELSE IF ~valid_status(payment_intent.status)
           THEN req' = Respond(p, "not_completed")
           ELSE IF pending_for(pending, slug) = {}
           THEN req' = Respond(p, "no_details")
           ELSE req' = [req EXCEPT ![p] =
                    [Idle EXCEPT !.pc = "hs_assign", !.slug = slug, !.pi = sid,
                                 !.name = (CHOOSE pe \in pending : TRUE).name,
                                 !.acct = acct, !.max_number = c.max_number,
                                 !.status = c.campaign_status,
                                 !.held = payment_intent.amount]]
    /\ UNCHANGED <<charity, entries, nextId, sess, intents, gwCalls, flash,
                 reveals, partner>>

\* the first assign_number(charity), before the loop: no free number ends the
\* request at once
hs_assign(p) ==
    /\ req[p].pc = "hs_assign"
    /\ IF available_numbers(req[p].slug, req[p].max_number) = {}
       THEN req' = Respond(p, "all_taken")
       ELSE req' = [req EXCEPT ![p].pc = "hs_pick"]
    /\ UNCHANGED <<charity, entries, nextId, sess, intents, gwCalls, flash,
                 reveals, partner>>

\* a loop that gives up after the first collision
single_attempt(tries) == tries < 1

\* `for _ in range(max_retries)`: another iteration follows `tries` failed ones
loop_continues(tries) == tries < max_retries

\* the head of `for _ in range(max_retries)` and assign_number(charity): a
\* random.choice among the free numbers.  After a rollback the campaign row
\* is expired and read again.
hs_pick(p) ==
    /\ req[p].pc = "hs_pick"
    /\ LET r == req[p]
           max_number == IF r.expired THEN charity[r.slug].max_number
                                      ELSE r.max_number
           status == IF r.expired THEN charity[r.slug].campaign_status
                                  ELSE r.status
           avail == available_numbers(r.slug, max_number)
           loaded == [r EXCEPT !.max_number = max_number, !.status = status,
                               !.expired = FALSE]
       IN  IF ~loop_continues(r.tries)
           THEN req' = [req EXCEPT ![p].pc = "hs_fail"]
           ELSE IF avail = {}
           THEN req' = [req EXCEPT ![p] = [loaded EXCEPT !.pc = "hs_fail"]]
           ELSE \E num \in avail :
                    req' = [req EXCEPT ![p] =
                               [loaded EXCEPT !.pc = "hs_commit", !.num = num]]
    /\ UNCHANGED <<charity, entries, nextId, sess, intents, gwCalls, flash,
                 reveals, partner>>

\* a callback that leaves the pending request in the session
keep_pending(s) == s

\* session.pop("pending_entry", None)
pop_pending(s) == [s EXCEPT !.pending_entry = {}]

\* db.session.commit() of the new Entry.  On success the session remembers
\* the Entry, the PaymentIntent metadata is set (metadata_ok: the gateway's
\* answer to PaymentIntent.modify, whose failure is only logged) and the
\* pending request is popped.  On IntegrityError: rollback and next iteration.
hs_commit(p, metadata_ok) ==
    /\ req[p].pc = "hs_commit"
    /\ nextId <= MaxEntryId
    /\ LET r == req[p]
       IN  IF UniqueViolation(r.slug, r.num, 0)
           THEN /\ req' = [req EXCEPT ![p].pc = "hs_pick", ![p].num = 0,
                                      ![p].tries = r.tries + 1,
                                      ![p].expired = TRUE]
                /\ UNCHANGED <<entries, nextId, sess, intents>>
           ELSE /\ entries' = entries \cup
                        {NewEntry(nextId, r.slug, r.num, r.pi, r.acct, r.held,
                                  r.name)}
                /\ nextId' = nextId + 1
                /\ sess' = [sess EXCEPT ![p] =
                        pop_pending([@ EXCEPT !.reveal_entry_id = nextId])]
                /\ intents' = IF metadata_ok
                              THEN [intents EXCEPT ![r.pi].entry_id = nextId]
                              ELSE intents
                /\ req' = [req EXCEPT ![p] =
                        [Idle EXCEPT !.result = "assigned", !.tries = r.tries]]
    /\ UNCHANGED <<charity, gwCalls, flash, reveals, partner>>

\* `if not entry`: refresh_campaign_status(charity) and back to the campaign page
hs_fail(p) ==
    /\ req[p].pc = "hs_fail"
    /\ LET r == req[p]
           max_number == IF r.expired THEN charity[r.slug].max_number
                                      ELSE r.max_number
           status == IF r.expired THEN charity[r.slug].campaign_status
                                  ELSE r.status
       IN  charity' = refresh_campaign_status(r.slug, max_number, status)
    /\ req' = [req EXCEPT ![p] =
            [Idle EXCEPT !.result = "selling_fast", !.tries = req[p].tries]]
    /\ UNCHANGED <<entries, nextId, sess, intents, gwCalls, flash, reveals,
                 partner>>

(***************************************************************************)
(* api_reveal_number (GET), answered with the HTTP status.  A disclosed      *)
(* number is recorded in `reveals`.                                         *)
(***************************************************************************)
\* a handler that reveals any Entry to any session
anyone_reveals(s, entry_id) == TRUE

\* session.get("reveal_entry_id") == entry_id
owns_reveal(s, entry_id) == s.reveal_entry_id = entry_id

api_reveal_number(p, entry_id) ==
    /\ req[p].pc = "idle"
    /\ entry_id >= 1
    /\ IF ~owns_reveal(sess[p], entry_id)
       THEN /\ req' = Respond(p, "403")
            /\ UNCHANGED <<sess, reveals>>
       ELSE IF sess[p].revealed_entry_id = entry_id
       THEN /\ req' = Respond(p, "409")
            /\ UNCHANGED <<sess, reveals>>
       ELSE IF ~(\E e \in entries : e.id = entry_id)
       THEN /\ req' = Respond(p, "404")
            /\ UNCHANGED <<sess, reveals>>
       ELSE /\ sess' = [sess EXCEPT ![p].revealed_entry_id = entry_id]
            /\ reveals' = reveals \cup
                   {[to |-> p, entry_id |-> entry_id,
                     ticket_number |-> EntryById(entry_id).number]}
            /\ req' = Respond(p, "200")
    /\ UNCHANGED <<charity, entries, nextId, intents, gwCalls, flash, partner>>

(***************************************************************************)
(* Operator handlers.  Each makes one commit.                               *)
(***************************************************************************)
\* edit_charity (POST) with a well-formed form: every numeric and checkbox
\* field of the form is written, campaign_status is not a field of the form
edit_charity(slug, form) ==
    /\ slug \in DOMAIN charity
    /\ charity' = [charity EXCEPT ![slug] =
            [@ EXCEPT !.max_number = form.max_number,
                      !.stripe_account_id = form.stripe_account_id,
                      !.is_live = form.is_live,
                      !.optional_donation_enabled = form.optional_donation_enabled,
                      !.skill_enabled = form.skill_enabled,
                      !.skill_configured = form.skill_configured,
                      !.hold_amount_pence =
                          Max(form.hold_amount_pence, form.max_number * 100)]]
    /\ UNCHANGED <<entries, nextId, sess, intents, gwCalls, req, flash,
                 reveals, partner>>

\* Charity(slug=..., max_number=maxn, ...): the row admin_charities inserts;
\* the other columns take their defaults, stripe_account_id is NULL
NewCharity(maxn) ==
    [max_number |-> maxn, campaign_status |-> "live", is_live |-> TRUE,
     hold_amount_pence |-> 20000, optional_donation_enabled |-> FALSE,
     stripe_account_id |-> "", skill_enabled |-> FALSE,
     skill_configured |-> FALSE]

\* admin_charities (POST) by a logged-in administrator: maxn is int() of the
\* max_number field; an existing slug is updated even with a field missing,
\* a new slug is inserted only with slug, name and url present (complete)
admin_charities(slug, admin_ok, maxn, complete) ==
    /\ admin_ok
    /\ IF slug \in DOMAIN charity
       THEN charity' = [charity EXCEPT ![slug].max_number = maxn]
       ELSE IF ~complete
       THEN charity' = charity
       ELSE charity' = [s \in DOMAIN charity \cup {slug} |->
                           IF s = slug THEN NewCharity(maxn) ELSE charity[s]]
    /\ UNCHANGED <<entries, nextId, sess, intents, gwCalls, req, flash,
                   reveals, partner>>

\* the values a status form can carry: the four statuses and anything else
StatusInputs == {"live", "inactive", "sold_out", "coming_soon", "archived"}

\* admin_set_campaign_status (POST): admin_ok is the flag of the operator's
\* session; an unknown status and a change to live without a payout account
\* are refused; otherwise campaign_status and is_live are written together
admin_set_campaign_status(slug, admin_ok, new_status) ==
    /\ slug \in DOMAIN charity
    /\ IF ~admin_ok
       THEN UNCHANGED <<charity, flash>>
       ELSE IF new_status \notin {"live", "inactive", "sold_out", "coming_soon"}
       THEN charity' = charity /\ flash' = "Invalid status."
       ELSE IF new_status = "live" /\ ~payout_connected(charity[slug])
       THEN charity' = charity /\ flash' = "Cannot set LIVE"
       ELSE /\ charity' = [charity EXCEPT
                              ![slug].campaign_status = new_status,
                              ![slug].is_live = (new_status = "live")]
            /\ flash' = "Status set"
    /\ UNCHANGED <<entries, nextId, sess, intents, gwCalls, req, reveals,
                 partner>>

\* the form as the page pre-populates it from the row
FormOf(c) ==
    [max_number |-> c.max_number, stripe_account_id |-> c.stripe_account_id,
     is_live |-> c.is_live,
     optional_donation_enabled |-> c.optional_donation_enabled,
     skill_enabled |-> c.skill_enabled,
     skill_configured |-> c.skill_configured,
     hold_amount_pence |-> c.hold_amount_pence]

\* partner_login (POST): with the password of a user of the campaign `slug`
\* the session is cleared and marked as that campaign's partner
partner_login(slug, password_ok) ==
    /\ slug \in DOMAIN charity
    /\ password_ok
    /\ partner' = [partner_ok |-> TRUE, partner_slug |-> slug]
    /\ UNCHANGED <<charity, entries, nextId, sess, intents, gwCalls, req, flash,
                   reveals>>

\* partner_logout
partner_logout ==
    /\ partner' = NoPartner
    /\ UNCHANGED <<charity, entries, nextId, sess, intents, gwCalls, req, flash,
                   reveals>>

\* partner_guard(slug): the session is a partner's and is for this campaign
partner_guard(slug) ==
    /\ partner.partner_ok
    /\ partner.partner_slug = slug
    /\ slug \in DOMAIN charity

\* partner_new_entry (POST) by a partner logged in for `slug`: a given number
\* is range-checked, a blank one is drawn from the free numbers; the insert
\* is refused by the unique constraint if the number is taken
partner_new_entry(slug, blank, number) ==
    /\ partner_guard(slug)
    /\ nextId <= MaxEntryId
    /\ IF blank THEN number \in available_numbers(slug, charity[slug].max_number)
                ELSE number >= 1 /\ number <= charity[slug].max_number
    /\ ~UniqueViolation(slug, number, 0)
    /\ entries' = entries \cup {NewEntry(nextId, slug, number, 0, "", 0, 0)}
    /\ nextId' = nextId + 1
    /\ UNCHANGED <<charity, sess, intents, gwCalls, req, flash, reveals,
                 partner>>

\* admin_new_entry (POST): only the blank-number branch inserts, with a free
\* number from assign_number
admin_new_entry(slug, candidate) ==
    /\ slug \in DOMAIN charity
    /\ nextId <= MaxEntryId
    /\ candidate \in available_numbers(slug, charity[slug].max_number)
    /\ ~UniqueViolation(slug, candidate, 0)
    /\ entries' = entries \cup {NewEntry(nextId, slug, candidate, 0, "", 0, 0)}
    /\ nextId' = nextId + 1
    /\ UNCHANGED <<charity, sess, intents, gwCalls, req, flash, reveals,
                 partner>>

\* partner_edit_entry (POST) with a number: range check, then the UPDATE,
\* refused by the unique constraint if another row has the number
partner_edit_entry(slug, entry_id, newnum) ==
    /\ partner_guard(slug)
    /\ \E e \in entries :
        /\ e.id = entry_id
        /\ e.charity_id = slug
        /\ newnum >= 1 /\ newnum <= charity[slug].max_number
        /\ ~UniqueViolation(slug, newnum, e.id)
        /\ entries' = (entries \ {e}) \cup {[e EXCEPT !.number = newnum]}
    /\ UNCHANGED <<charity, nextId, sess, intents, gwCalls, req, flash,
                 reveals, partner>>

\* partner_delete_entry (POST)
partner_delete_entry(slug, entry_id) ==
    /\ partner_guard(slug)
    /\ \E e \in entries :
        /\ e.id = entry_id
        /\ e.charity_id = slug
        /\ entries' = entries \ {e}
    /\ UNCHANGED <<charity, nextId, sess, intents, gwCalls, req, flash,
                 reveals, partner>>

\* the three bulk actions on the rows selected by
\* Entry.charity_id == charity.id and Entry.id.in_(ids)
bulk_apply(slug, ids, action) ==
    LET selected(e) == e.charity_id = slug /\ e.id \in ids
    IN  IF action = "mark_paid"
        THEN {IF selected(e) THEN [e EXCEPT !.paid = TRUE, !.paid_at = "bulk"]
                             ELSE e : e \in entries}
        ELSE IF action = "mark_unpaid"
        THEN {IF selected(e) THEN [e EXCEPT !.paid = FALSE, !.paid_at = "none"]
                             ELSE e : e \in entries}
        ELSE IF action = "delete"
        THEN {e \in entries : ~selected(e)}
        ELSE entries

BulkActions == {"mark_paid", "mark_unpaid", "delete"}

\* partner_bulk_entries (POST)
partner_bulk_entries(slug, ids, action) ==
    /\ partner_guard(slug)
    /\ ids # {}
    /\ entries' = bulk_apply(slug, ids, action)
    /\ UNCHANGED <<charity, nextId, sess, intents, gwCalls, req, flash,
                   reveals, partner>>

\* admin_bulk_entries (POST); admin_ok is the flag of the operator's session
admin_bulk_entries(slug, admin_ok, ids, action) ==
    /\ admin_ok
    /\ slug \in DOMAIN charity
    /\ ids # {}
    /\ entries' = bulk_apply(slug, ids, action)
    /\ UNCHANGED <<charity, nextId, sess, intents, gwCalls, req, flash,
                   reveals, partner>>

\* the browsers a request to an operator page can come from: one with the
\* admin flag in its session, the partner's, one with neither
Browsers == {"admin", "partner", "visitor"}

\* toggle_paid (POST): any session with admin_ok or partner_ok flips paid
toggle_paid(browser, entry_id) ==
    /\ browser = "admin" \/ (browser = "partner" /\ partner.partner_ok)
    /\ \E e \in entries :
        /\ e.id = entry_id
        /\ entries' = (entries \ {e}) \cup
               {[e EXCEPT !.paid = ~e.paid,
                          !.paid_at = IF ~e.paid THEN "toggle" ELSE "none"]}
    /\ UNCHANGED <<charity, nextId, sess, intents, gwCalls, req, flash,
                   reveals, partner>>

(***************************************************************************)
(* confirm_payment.                                                         *)
(*                                                                           *)
(* The amount field of the form: any text.  int(raw) of a numeric text is   *)
(* its value, of any other text a ValueError, which the handler turns       *)
(* into -1.                                                                  *)
(***************************************************************************)
RawAmounts ==
    {[numeric |-> FALSE, value |-> 0]} \cup
    {[numeric |-> TRUE, value |-> v] : v \in (0 - 1)..(MaxCapacity + 1)}

\* a handler that always takes the amount from the form
amount_gbp_from_form(optional_ok, number, raw) ==
    IF raw.numeric THEN raw.value ELSE 0 - 1

\* amount_gbp: the ticket number unless optional donations are enabled
amount_gbp_of(optional_ok, number, raw) ==
    IF ~optional_ok THEN number
    ELSE IF raw.numeric THEN raw.value ELSE 0 - 1

\* amount checks without the upper limits: only the minimum and the sign
amount_rejection_uncapped(optional_ok, amount_gbp, hold_amount_pence) ==
    IF ~optional_ok /\ amount_gbp < 1 THEN "minimum_donation"
    ELSE IF amount_gbp < 0 THEN "invalid_amount"
    ELSE ""

\* the checks of the amount against the Entry's hold, in the order of the
\* source: the response that rejects the amount, "" if it is accepted
amount_rejection(optional_ok, amount_gbp, hold_amount_pence) ==
    LET amount_pence == amount_gbp * 100
        max_gbp == hold_amount_pence \div 100
        held == IF hold_amount_pence <= 0 THEN HOLD_AMOUNT_PENCE
                                          ELSE hold_amount_pence
    IN  IF ~optional_ok /\ amount_gbp < 1 THEN "minimum_donation"
        ELSE IF amount_gbp > max_gbp THEN "exceeds_hold"
        ELSE IF amount_pence < 0 \/ amount_pence > held THEN "invalid_amount"
        ELSE ""

\* a handler that does not look at entry.paid
never_paid(e) == FALSE

\* `if entry.paid:`
is_paid(e) == e.paid

\* a handler without the release path: every accepted amount is captured
never_release(optional_ok, amount_pence) == FALSE

\* a handler that reads the flag the wrong way round
release_when_disabled(optional_ok, amount_pence) == ~optional_ok

\* `if optional_ok and amount_pence == 0:` the hold is released, not captured
zero_releases(optional_ok, amount_pence) == optional_ok /\ amount_pence = 0

\* acct = entry.stripe_account_id or charity.stripe_account_id or ""
payout_account(e, c) ==
    IF e.stripe_account_id # "" THEN e.stripe_account_id ELSE c.stripe_account_id

\* the checks of confirm_payment between loading the rows and the gateway
\* call, in the order of the source: the response that ends the request, or
\* "cancel" / "capture" for the gateway call that follows
confirm_decision(e, c, raw) ==
    LET optional_ok == c.optional_donation_enabled
        amount_gbp == amount_gbp_of(optional_ok, e.number, raw)
        rejection == amount_rejection(optional_ok, amount_gbp, e.hold_amount_pence)
    IN  IF ~StartsWithAcct(payout_account(e, c)) THEN "payout_missing"
        ELSE IF is_paid(e) THEN "already_paid"
        ELSE IF e.payment_intent_id = 0 THEN "no_authorisation"
        ELSE IF rejection # "" THEN rejection
        ELSE IF zero_releases(optional_ok, amount_gbp * 100) THEN "cancel"
        ELSE "capture"

\* cp_load: Entry.query.get_or_404, Charity.query.get_or_404 and the checks
cp_load(p, entry_id, raw) ==
    /\ req[p].pc = "idle"
    /\ \E e \in entries :
        /\ e.id = entry_id
        /\ LET c == charity[e.charity_id]
               decision == confirm_decision(e, c, raw)
               optional_ok == c.optional_donation_enabled
           IN  IF decision \notin {"cancel", "capture"}
               THEN req' = Respond(p, decision)
               ELSE req' = [req EXCEPT ![p] =
                        [Idle EXCEPT
                            !.pc = IF decision = "cancel" THEN "cp_cancel"
                                                          ELSE "cp_capture",
                            !.slug = e.charity_id,
                            !.entry_id = e.id,
                            !.pi = e.payment_intent_id,
                            !.acct = payout_account(e, c),
                            !.amount_pence =
                                amount_gbp_of(optional_ok, e.number, raw) * 100,
                            !.held = e.hold_amount_pence,
                            !.number = e.number,
                            !.optional_ok = optional_ok]]
    /\ UNCHANGED <<charity, entries, nextId, sess, intents, gwCalls, flash,
                 reveals, partner>>

\* the request as the gateway receives it, with what the handler had read
\* from the Entry and the campaign when it sent it
GatewayCall(op, r, p) ==
    [op |-> op, pi |-> r.pi, amount |-> r.amount_pence, by |-> p,
     entry_id |-> r.entry_id, held |-> r.held, number |-> r.number,
     optional_ok |-> r.optional_ok]

\* a handler that does not catch the gateway's exception
ignore_gateway_error(p, accepted, failure) == [req EXCEPT ![p].pc = "cp_commit"]

\* try: <gateway call> / except Exception: flash the failure and return;
\* the handler goes on to mark the Entry only when the call returned
after_gateway(p, accepted, failure) ==
    IF accepted THEN [req EXCEPT ![p].pc = "cp_commit"]
                ELSE Respond(p, failure)

\* stripe.PaymentIntent.capture: the gateway captures an authorised
\* PaymentIntent of that account for at most the authorised amount; any
\* other request, or gateway_ok = FALSE (a gateway-side failure), raises
cp_capture(p, gateway_ok) ==
    /\ req[p].pc = "cp_capture"
    /\ LET r == req[p]
           accepted == /\ gateway_ok
                       /\ intents[r.pi].status = "requires_capture"
                       /\ intents[r.pi].acct = r.acct
                       /\ r.amount_pence >= 1
                       /\ r.amount_pence <= intents[r.pi].amount
       IN  /\ gwCalls' = gwCalls \cup {GatewayCall("capture", r, p)}
           /\ IF accepted
              THEN intents' = [intents EXCEPT ![r.pi].status = "succeeded",
                                     ![r.pi].amount_captured = r.amount_pence]
              ELSE intents' = intents
           /\ req' = after_gateway(p, accepted, "capture_failed")
    /\ UNCHANGED <<charity, entries, nextId, sess, flash, reveals, partner>>

\* stripe.PaymentIntent.cancel: the gateway cancels a PaymentIntent that is
\* not yet captured or cancelled
cp_cancel(p, gateway_ok) ==
    /\ req[p].pc = "cp_cancel"
    /\ LET r == req[p]
           accepted == /\ gateway_ok
                       /\ intents[r.pi].status \in
                              {"requires_payment_method", "requires_capture"}
                       /\ intents[r.pi].acct = r.acct
       IN  /\ gwCalls' = gwCalls \cup {GatewayCall("cancel", r, p)}
           /\ IF accepted
              THEN intents' = [intents EXCEPT ![r.pi].status = "canceled"]
              ELSE intents' = intents
           /\ req' = after_gateway(p, accepted, "release_failed")
    /\ UNCHANGED <<charity, entries, nextId, sess, flash, reveals, partner>>

\* entry.paid = True; entry.paid_at = utcnow(); db.session.commit(): the
\* UPDATE of the two columns of the row, if the row is still there
cp_commit(p) ==
    /\ req[p].pc = "cp_commit"
    /\ LET r == req[p]
       IN  /\ entries' = {IF e.id = r.entry_id
                          THEN [e EXCEPT !.paid = TRUE, !.paid_at = "confirm"]
                          ELSE e : e \in entries}
           /\ req' = Respond(p, IF r.amount_pence = 0 THEN "released"
                                                     ELSE "confirmed")
    /\ UNCHANGED <<charity, nextId, sess, intents, gwCalls, flash, reveals,
                 partner>>

(***************************************************************************)
(* stripe_webhook: the gateway delivers payment_intent.succeeded for a      *)
(* captured PaymentIntent, at any time after the capture and any number of  *)
(* times.  The Entry is found through the metadata that hold_success set.   *)
(***************************************************************************)
stripe_webhook(pi) ==
    /\ pi \in DOMAIN intents
    /\ intents[pi].status = "succeeded"
    /\ LET entry_id == intents[pi].entry_id
       IN  entries' = {IF e.id = entry_id /\ entry_id # 0 /\ ~e.paid
                       THEN [e EXCEPT !.paid = TRUE, !.paid_at = "webhook"]
                       ELSE e : e \in entries}
    /\ UNCHANGED <<charity, nextId, sess, intents, gwCalls, req, flash,
                 reveals, partner>>

(***************************************************************************)
(* The steps of the donor flow up to the hold callback, for the donors D.   *)
(***************************************************************************)
DonorFlow(D) ==
    \/ \E p \in D, post \in BOOLEAN, form_ok \in BOOLEAN :
           charity_page(p, Slug, post, form_ok)
    \/ \E p \in D, gateway_ok \in BOOLEAN : start_hold(p, Slug, gateway_ok)
    \/ \E pi \in 1..MaxIntents : checkout_authorised(pi)
    \/ \E p \in D, sid \in 1..MaxIntents : hs_verify(p, Slug, sid)
    \/ \E p \in D : hs_assign(p)
    \/ \E p \in D : hs_pick(p)
    \/ \E p \in D : hs_commit(p, TRUE)
    \/ \E p \in D : hs_fail(p)

(***************************************************************************)
(* Spec: donor flows racing with the operator's edits of the number range.  *)
(* The campaign starts with one number.                                     *)
(***************************************************************************)
Init == InitWith(1)

Next ==
    \/ DonorFlow(Donors)
    \/ \E m \in 1..MaxCapacity :
           edit_charity(Slug, [FormOf(charity[Slug]) EXCEPT !.max_number = m])

Spec == Init /\ [][Next]_vars

(***************************************************************************)
(* SpecLedger: donor flows racing with each other and with the operators'   *)
(* creation and renumbering of Entry rows.                                  *)
(***************************************************************************)
InitLedger == InitWith(MaxCapacity)

NextLedger ==
    \/ DonorFlow(Donors)
    \/ partner_login(Slug, TRUE)
    \/ \E blank \in BOOLEAN, n \in 0..(MaxCapacity + 1) :
           partner_new_entry(Slug, blank, n)
    \/ \E n \in 1..MaxCapacity : admin_new_entry(Slug, n)
    \/ \E id \in 1..MaxEntryId, n \in 0..(MaxCapacity + 1) :
           partner_edit_entry(Slug, id, n)

SpecLedger == InitLedger /\ [][NextLedger]_vars

\* SpecRetry: SpecLedger with a callback that, once in its loop, keeps running:
\* the handler is one sequential request
SpecRetry ==
    /\ SpecLedger
    /\ \A p \in Donors :
           WF_vars(hs_pick(p) \/ hs_commit(p, TRUE) \/ hs_fail(p))

(***************************************************************************)
(* SpecScenarioA: every donor makes one allocation request with a verified   *)
(* hold, the requests run concurrently, and the campaign has one number     *)
(* more than there are donors.                                              *)
(***************************************************************************)
ScenarioCapacity == NumDonors + 1

InitScenarioA == InitWith(ScenarioCapacity)

\* one allocation request per donor: the form is posted once, one checkout
\* session is created, and the callback arrives once the hold is authorised
OneAllocation(D) ==
    \/ \E p \in D :
        /\ sess[p].pending_entry = {}
        /\ sess[p].reveal_entry_id = 0
        /\ charity_page(p, Slug, TRUE, TRUE)
    \/ \E p \in D :
        /\ \A pi \in DOMAIN intents : intents[pi].donor # p
        /\ start_hold(p, Slug, TRUE)
    \/ \E pi \in 1..MaxIntents : checkout_authorised(pi)
    \/ \E p \in D, sid \in 1..MaxIntents :
        /\ sid \in DOMAIN intents
        /\ intents[sid].status = "requires_capture"
        /\ sess[p].pending_entry # {}
        /\ hs_verify(p, Slug, sid)
    \/ \E p \in D : hs_assign(p)
    \/ \E p \in D : hs_pick(p)
    \/ \E p \in D : hs_commit(p, TRUE)

NextScenarioA == OneAllocation(Donors)

SpecScenarioA == InitScenarioA /\ [][NextScenarioA]_vars

(***************************************************************************)
(* SpecSettle: donors go through the whole flow, confirm with any amount,   *)
(* and the gateway may fail any capture or cancel; the operator changes the *)
(* number range and switches optional donations on and off.                 *)
(***************************************************************************)
Settlers == 1..NumSettlers

Confirm(D, outcomes) ==
    \/ \E p \in D, id \in 1..MaxEntryId, raw \in RawAmounts : cp_load(p, id, raw)
    \/ \E p \in D, gateway_ok \in outcomes : cp_capture(p, gateway_ok)
    \/ \E p \in D, gateway_ok \in outcomes : cp_cancel(p, gateway_ok)
    \/ \E p \in D : cp_commit(p)

NextSettle ==
    \/ OneAllocation(Settlers)
    \/ Confirm(Settlers, BOOLEAN)
    \/ \E m \in 1..MaxCapacity, optional \in BOOLEAN :
           edit_charity(Slug, [FormOf(charity[Slug]) EXCEPT
                                   !.max_number = m,
                                   !.optional_donation_enabled = optional])

SpecSettle == Init /\ [][NextSettle]_vars

(***************************************************************************)
(* SpecDouble: a double submit.  One donor goes through the flow; the       *)
(* confirm form is then posted from two windows (confirm_payment does not   *)
(* look at the session), the gateway answers every request it can, and the *)
(* operator switches optional donations on and off.                        *)
(***************************************************************************)
NextDouble ==
    \/ OneAllocation({1})
    \/ Confirm(Donors, {TRUE})
    \/ \E optional \in BOOLEAN :
           edit_charity(Slug, [FormOf(charity[Slug]) EXCEPT
                                   !.optional_donation_enabled = optional])

SpecDouble == Init /\ [][NextDouble]_vars

(***************************************************************************)
(* SpecCampaign: one donor's flow while the operator changes the campaign:  *)
(* its status, its number range, its payout account, and Entries added by   *)
(* hand.                                                                    *)
(***************************************************************************)
NextCampaign ==
    \/ DonorFlow(Settlers)
    \/ \E admin_ok \in BOOLEAN, new_status \in StatusInputs :
           admin_set_campaign_status(Slug, admin_ok, new_status)
    \/ \E m \in 1..MaxCapacity, acct \in AccountIds :
           edit_charity(Slug, [FormOf(charity[Slug]) EXCEPT
                                   !.max_number = m,
                                   !.stripe_account_id = acct])
    \/ \E n \in 0..MaxCapacity : admin_new_entry(Slug, n)

SpecCampaign == Init /\ [][NextCampaign]_vars

(***************************************************************************)
(* SpecCallback: one donor uses the campaign page, the checkout, the hold   *)
(* callback and the confirm form in any order and any number of times; the  *)
(* operator switches optional donations on and off and adds Entries by hand. *)
(***************************************************************************)
NextCallback ==
    \/ DonorFlow(Settlers)
    \/ Confirm(Settlers, {TRUE})
    \/ \E optional \in BOOLEAN :
           edit_charity(Slug, [FormOf(charity[Slug]) EXCEPT
                                   !.optional_donation_enabled = optional])
    \/ \E n \in 0..MaxCapacity : admin_new_entry(Slug, n)

SpecCallback == InitLedger /\ [][NextCallback]_vars

(***************************************************************************)
(* SpecReveal: the donors use the campaign page, the checkout and the hold  *)
(* callback in any order and any number of times, and ask for the number of *)
(* any Entry.                                                               *)
(***************************************************************************)
NextReveal ==
    \/ DonorFlow(Donors)
    \/ \E p \in Donors, entry_id \in 1..MaxEntryId : api_reveal_number(p, entry_id)

SpecReveal == InitLedger /\ [][NextReveal]_vars

(***************************************************************************)
(* SpecWebhook: SpecSettle with the gateway delivering its                  *)
(* payment_intent.succeeded events.                                         *)
(***************************************************************************)
NextWebhook ==
    \/ OneAllocation(Settlers)
    \/ Confirm(Settlers, BOOLEAN)
    \/ \E pi \in 1..MaxIntents : stripe_webhook(pi)
    \/ \E m \in 1..MaxCapacity, optional \in BOOLEAN :
           edit_charity(Slug, [FormOf(charity[Slug]) EXCEPT
                                   !.max_number = m,
                                   !.optional_donation_enabled = optional])

SpecWebhook == Init /\ [][NextWebhook]_vars

(***************************************************************************)
(* SpecOperator: one donor goes through the flow and confirms, the gateway  *)
(* delivers its events, and the operators work on the Entries: the admin    *)
(* and the campaign's partner toggle, mark and delete them.                 *)
(***************************************************************************)
NextOperator ==
    \/ OneAllocation(Settlers)
    \/ Confirm(Settlers, {TRUE})
    \/ \E pi \in 1..MaxIntents : stripe_webhook(pi)
    \/ \E optional \in BOOLEAN :
           edit_charity(Slug, [FormOf(charity[Slug]) EXCEPT
                                   !.optional_donation_enabled = optional])
    \/ partner_login(Slug, TRUE)
    \/ partner_logout
    \/ \E browser \in Browsers, id \in 1..MaxEntryId : toggle_paid(browser, id)
    \/ \E ids \in SUBSET (1..MaxEntryId), action \in BulkActions :
           admin_bulk_entries(Slug, TRUE, ids, action)
    \/ \E ids \in SUBSET (1..MaxEntryId), action \in BulkActions :
           partner_bulk_entries(Slug, ids, action)
    \/ \E id \in 1..MaxEntryId : partner_delete_entry(Slug, id)

SpecOperator == Init /\ [][NextOperator]_vars

(***************************************************************************)
(* SpecFlow: one donor's allocation, the reveal endpoint and the confirm    *)
(* form, requested in any order; the gateway accepts every call.            *)
(***************************************************************************)
NextFlow ==
    \/ OneAllocation(Settlers)
    \/ \E p \in Settlers, entry_id \in 1..MaxEntryId : api_reveal_number(p, entry_id)
    \/ Confirm(Settlers, {TRUE})
    \/ \E optional \in BOOLEAN :
           edit_charity(Slug, [FormOf(charity[Slug]) EXCEPT
                                   !.optional_donation_enabled = optional])

SpecFlow == InitLedger /\ [][NextFlow]_vars

(***************************************************************************)
(* Two campaigns, the seeded one and one the administrator added through   *)
(* admin_charities, and the requests of one partner browser next to the    *)
(* administrator's.                                                         *)
(***************************************************************************)
OtherSlug == "second"

InitPartner ==
    /\ charity = [s \in {Slug, OtherSlug} |-> InitCharity(MaxCapacity)]
    /\ entries = {}
    /\ nextId = 1
    /\ sess = [p \in Donors |-> EmptySession]
    /\ intents = <<>>
    /\ gwCalls = {}
    /\ req = [p \in Donors |-> Idle]
    /\ flash = ""
    /\ reveals = {}
    /\ partner = NoPartner

\* the requests sent from the partner's browser to the routes that change
\* Entries
PartnerRequest ==
    \E slug \in {Slug, OtherSlug} :
        \/ \E blank \in BOOLEAN, number \in 1..MaxCapacity :
               partner_new_entry(slug, blank, number)
        \/ \E id \in 1..MaxEntryId, newnum \in 1..MaxCapacity :
               partner_edit_entry(slug, id, newnum)
        \/ \E id \in 1..MaxEntryId : partner_delete_entry(slug, id)
        \/ \E ids \in SUBSET (1..MaxEntryId), action \in BulkActions :
               partner_bulk_entries(slug, ids, action)
        \/ \E id \in 1..MaxEntryId : toggle_paid("partner", id)

NextPartner ==
    \/ \E slug \in {Slug, OtherSlug} : partner_login(slug, TRUE)
    \/ partner_logout
    \/ \E slug \in {Slug, OtherSlug}, n \in 1..MaxCapacity :
           admin_new_entry(slug, n)
    \/ PartnerRequest

SpecPartner == InitPartner /\ [][NextPartner]_vars

(***************************************************************************)
(* SpecTwoCampaigns: the donors use the pages, the checkout and the hold    *)
(* callback of two campaigns with the same payout account, in any order.    *)
(***************************************************************************)
NextTwoCampaigns ==
    \/ \E slug \in {Slug, OtherSlug} :
        \/ \E p \in Donors, post \in BOOLEAN : charity_page(p, slug, post, TRUE)
        \/ \E p \in Donors : start_hold(p, slug, TRUE)
        \/ \E p \in Donors, sid \in 1..MaxIntents : hs_verify(p, slug, sid)
    \/ \E pi \in 1..MaxIntents : checkout_authorised(pi)
    \/ \E p \in Donors : hs_assign(p)
    \/ \E p \in Donors : hs_pick(p)
    \/ \E p \in Donors : hs_commit(p, TRUE)
    \/ \E p \in Donors : hs_fail(p)

SpecTwoCampaigns == InitPartner /\ [][NextTwoCampaigns]_vars

(***************************************************************************)
(* SpecSkill: one donor's flow through the campaign page, the skill gate,   *)
(* the authorise page and the hold, while the operator switches the skill   *)
(* question on and off, with or without a question and a correct answer.    *)
(***************************************************************************)
NextSkill ==
    \/ \E p \in Settlers, post \in BOOLEAN : charity_page(p, Slug, post, TRUE)
    \/ \E p \in Settlers, post \in BOOLEAN, correct \in BOOLEAN :
           skill_gate(p, Slug, post, correct)
    \/ \E p \in Settlers : authorise_hold(p, Slug)
    \/ \E p \in Settlers : start_hold(p, Slug, TRUE)
    \/ \E pi \in 1..MaxIntents : checkout_authorised(pi)
    \/ \E p \in Settlers, sid \in 1..MaxIntents : hs_verify(p, Slug, sid)
    \/ \E p \in Settlers : hs_assign(p)
    \/ \E p \in Settlers : hs_pick(p)
    \/ \E p \in Settlers : hs_commit(p, TRUE)
    \/ \E p \in Settlers : hs_fail(p)
    \/ \E n \in 1..MaxCapacity : admin_new_entry(Slug, n)
    \/ \E enabled \in BOOLEAN, configured \in BOOLEAN :
           edit_charity(Slug, [FormOf(charity[Slug]) EXCEPT
                                   !.skill_enabled = enabled,
                                   !.skill_configured = configured])

SpecSkill == InitLedger /\ [][NextSkill]_vars

(***************************************************************************)
(* SpecAdmin: the administrator creates a second campaign and edits both    *)
(* campaigns (number range, payout account, status) with any integer in the *)
(* max_number field, while one donor goes through an allocation.            *)
(***************************************************************************)
MaxNumberInputs == 0..MaxCapacity

NextAdmin ==
    \/ OneAllocation(Settlers)
    \/ \E slug \in {Slug, OtherSlug}, maxn \in MaxNumberInputs, complete \in BOOLEAN :
           admin_charities(slug, TRUE, maxn, complete)
    \/ \E slug \in DOMAIN charity, m \in MaxNumberInputs, acct \in AccountIds :
           edit_charity(slug, [FormOf(charity[slug]) EXCEPT
                                   !.max_number = m,
                                   !.stripe_account_id = acct])
    \/ \E slug \in {Slug, OtherSlug}, new_status \in StatusInputs :
           admin_set_campaign_status(slug, TRUE, new_status)

SpecAdmin == Init /\ [][NextAdmin]_vars

(***************************************************************************)
(* Claims on the ledger.                                                    *)
(***************************************************************************)
\* C1: in every reachable state no two Entry rows of the same campaign have
\* the same number, whatever the interleaving of hold callbacks, admin and
\* partner entry creation and partner entry edits.
C1_Uniqueness ==
    \A e1, e2 \in entries :
        (e1.charity_id = e2.charity_id /\ e1.number = e2.number) => e1 = e2

\* two rows exist and one of them was inserted after a hold callback lost a
\* race for its first number and retried
C1_Witness ==
    /\ Cardinality(entries) = 2
    /\ \E p \in Donors : req[p].result = "assigned" /\ req[p].tries >= 1

\* C2: in every reachable state every Entry's number lies in 1..max_number
\* of its campaign, over all allocations, entry edits and operator edits of
\* the campaign.
C2_Bounds ==
    \A e \in entries :
        e.number >= 1 /\ e.number <= charity[e.charity_id].max_number

\* C3: every Entry created by the hold callback has, when it is created,
\* hold_amount_pence >= 100 * max_number of its campaign at that moment.
C3_HoldSufficiency ==
    [][\A e \in entries' \ entries :
           e.payment_intent_id # 0 =>
               e.hold_amount_pence >= 100 * charity[e.charity_id].max_number]_vars

\* C8: when all N numbers of a campaign of capacity N are allocated, the next
\* hold callback creates no Entry, reports that all numbers are taken and
\* leaves the campaign status sold_out.
C8_Exhaustion ==
    [][\A p \in Donors :
           (/\ req[p].pc \in {"hs_assign", "hs_fail"}
            /\ req'[p].pc = "idle"
            /\ Taken(req[p].slug) = 1..charity[req[p].slug].max_number)
           => /\ entries' = entries
              /\ req'[p].result \in {"all_taken", "selling_fast"}
              /\ charity'[req[p].slug].campaign_status = "sold_out"]_vars

\* C9: the hold callback is idempotent per checkout session id, so no two
\* Entry rows reference the same PaymentIntent.
C9_OneEntryPerHold ==
    \A e1, e2 \in entries :
        (e1.payment_intent_id # 0 /\ e1.payment_intent_id = e2.payment_intent_id)
            => e1 = e2


(***************************************************************************)
(* Claims on settlement.                                                    *)
(***************************************************************************)
CallsFor(id) == {c \in gwCalls : c.entry_id = id}

\* C4: every capture request sent to the gateway for an Entry has an amount
\* of at least 0 and at most that Entry's hold_amount_pence.
C4_CaptureWithinHold ==
    \A c \in gwCalls : \A e \in entries :
        (c.op = "capture" /\ e.id = c.entry_id) =>
            (c.amount >= 0 /\ c.amount <= e.hold_amount_pence)

\* a capture of the whole hold was sent, and a request for more than the hold
\* was turned away
C4_Witness ==
    /\ \E c \in gwCalls : \E e \in entries :
        c.op = "capture" /\ e.id = c.entry_id /\ c.amount = 100 * (e.hold_amount_pence \div 100)
    /\ \E p \in Settlers : req[p].result = "exceeds_hold"

\* C5: confirm_payment on an Entry that is already paid ends at once: it
\* changes no Entry and no PaymentIntent and sends nothing to the gateway.
C5_PaidIsFinal ==
    [][\A p \in Settlers, id \in 1..MaxEntryId, raw \in RawAmounts :
          (cp_load(p, id, raw) /\ EntryById(id).paid) =>
              /\ req'[p].pc = "idle"
              /\ req'[p].result \notin {"confirmed", "released"}
              /\ entries' = entries
              /\ intents' = intents
              /\ gwCalls' = gwCalls]_vars

\* a confirm on a paid Entry was answered "already paid"
C5_Witness ==
    \E p \in Settlers : \E e \in entries :
        req[p].result = "already_paid" /\ e.paid

\* C6: when the confirm form of one unpaid Entry is submitted twice
\* concurrently, at most one capture or cancel request for it reaches the
\* gateway, and the Entry ends paid.
C6_SingleGatewayCall ==
    \A e \in entries :
        /\ Cardinality(CallsFor(e.id)) <= 1
        /\ (CallsFor(e.id) # {} /\ \A p \in Donors : req[p].pc = "idle") => e.paid

\* C7: with at least as many free numbers as concurrent allocation requests,
\* no request fails, the run can only end with every request allocated, and
\* then the Entries are the donors' own, their numbers are pairwise distinct
\* and in range, and the count of free numbers has dropped by the number of
\* requests.
C7_ConcurrentAllocation ==
    /\ \A p \in Donors :
        /\ req[p].pc # "hs_fail"
        /\ req[p].result \notin {"all_taken", "selling_fast"}
    /\ (~ENABLED NextScenarioA) => \A p \in Donors : req[p].result = "assigned"
    /\ (\A p \in Donors : req[p].result = "assigned") =>
        /\ \A p \in Donors : \E e \in entries : e.id = sess[p].reveal_entry_id
        /\ \A p, q \in Donors :
               p # q => sess[p].reveal_entry_id # sess[q].reveal_entry_id
        /\ Cardinality(entries) = NumDonors
        /\ Cardinality(Taken(Slug)) = NumDonors
        /\ Taken(Slug) \subseteq 1..ScenarioCapacity
        /\ Cardinality(available_numbers(Slug, ScenarioCapacity))
               = ScenarioCapacity - NumDonors

\* every request is allocated and one of them collided and retried
C7_Witness ==
    /\ \A p \in Donors : req[p].result = "assigned"
    /\ \E p \in Donors : req[p].tries >= 1

\* C10: with partial donations disabled, every capture request carries
\* exactly the Entry's number times 100 pence, whatever amount was posted.
C10_FixedAmount ==
    \A c \in gwCalls :
        (c.op = "capture" /\ ~c.optional_ok) => c.amount = c.number * 100

\* a capture was sent while partial donations were disabled
C10_Witness ==
    \E c \in gwCalls : ~c.optional_ok /\ c.op = "capture" /\ c.number >= 1

\* a confirm of this Entry would reach the amount checks: payout account
\* present, Entry unpaid and carrying a PaymentIntent
Settleable(e) ==
    /\ StartsWithAcct(payout_account(e, charity[e.charity_id]))
    /\ ~e.paid
    /\ e.payment_intent_id # 0

\* C11: with partial donation enabled, a confirm with amount 0 goes to the
\* gateway as a cancel and never as a capture, and when the cancel succeeds
\* the request ends with the Entry paid and nothing captured on its hold.
C11_ZeroReleasesHold ==
    [][\A p \in Settlers :
        /\ \A e \in entries :
              (/\ cp_load(p, e.id, [numeric |-> TRUE, value |-> 0])
               /\ charity[e.charity_id].optional_donation_enabled
               /\ Settleable(e))
              => req'[p].pc = "cp_cancel"
        /\ (req[p].pc = "cp_cancel" /\ req'[p] # req[p]) =>
              \A c \in gwCalls' \ gwCalls : c.op = "cancel" /\ c.amount = 0
        /\ req[p].pc = "cp_capture" =>
              ~(req[p].optional_ok /\ req[p].amount_pence = 0)
        /\ (req[p].pc = "cp_commit" /\ req[p].amount_pence = 0
                /\ req'[p].pc = "idle") =>
              /\ req'[p].result = "released"
              /\ \E e \in entries' : e.id = req[p].entry_id /\ e.paid
              /\ intents'[req[p].pi].status = "canceled"
              /\ intents'[req[p].pi].amount_captured = 0]_vars

\* a hold was released: the Entry is paid and its PaymentIntent cancelled
C11_Witness ==
    \E p \in Settlers : \E e \in entries :
        /\ req[p].result = "released"
        /\ e.paid
        /\ e.payment_intent_id # 0
        /\ intents[e.payment_intent_id].status = "canceled"
        /\ intents[e.payment_intent_id].amount_captured = 0

C13_FailureKeepsUnpaid ==
    [][/\ \A p \in Settlers :
           (/\ req[p].pc \in {"cp_capture", "cp_cancel"}
            /\ req'[p] # req[p]
            /\ intents' = intents)
           => /\ req'[p].pc = "idle"
              /\ req'[p].result \in {"capture_failed", "release_failed"}
              /\ entries' = entries
              /\ \A e \in entries' :
                    (e.id = req[p].entry_id /\ ~e.paid) =>
                        (e.paid_at = "none" /\ Settleable(e)')
       /\ \A e \in entries' :
           (e.paid /\ e.payment_intent_id # 0) =>
               intents'[e.payment_intent_id].status \in {"succeeded", "canceled"}
      ]_vars

\* a gateway call for an Entry failed and a later confirm of the same
\* session settled it
C13_Witness ==
    \E p \in Settlers : \E e \in entries :
        /\ Cardinality(CallsFor(e.id)) >= 2
        /\ \A c \in CallsFor(e.id) : c.by = p
        /\ e.paid
        /\ req[p].result = "confirmed"

(***************************************************************************)
(* Claims on the campaign's status and on the hold.                         *)
(***************************************************************************)
\* C14: a complete POST to the campaign page stores the pending request if
\* and only if the campaign's status is live and a number is free; with any
\* other status, or no free number, the session is left as it was and the
\* donor is told the campaign is not accepting entries.
C14_AcceptingIffLiveAndFree ==
    [][\A p \in Settlers :
        charity_page(p, Slug, TRUE, TRUE) =>
            IF /\ charity[Slug].campaign_status = "live"
               /\ available_numbers(Slug, charity[Slug].max_number) # {}
            THEN /\ \E pe \in sess'[p].pending_entry : pe.slug = Slug
                 /\ req'[p].result = ""
            ELSE /\ sess' = sess
                 /\ req'[p].result = "not_accepting"]_vars

\* a POST was turned away by a campaign that is not live but has a free
\* number, while the donor had no pending request
C14_Witness ==
    \E p \in Settlers :
        /\ req[p].result = "not_accepting"
        /\ charity[Slug].campaign_status \in {"inactive", "coming_soon"}
        /\ available_numbers(Slug, charity[Slug].max_number) # {}
        /\ sess[p].pending_entry = {}

\* C15: a request for status live on a campaign whose payout account does
\* not start with "acct_" is refused: campaign_status and is_live keep their
\* values, whoever sends it.
C15_LiveNeedsPayout ==
    [][\A admin_ok \in BOOLEAN :
        (/\ admin_set_campaign_status(Slug, admin_ok, "live")
         /\ ~StartsWithAcct(charity[Slug].stripe_account_id))
        => /\ charity'[Slug].campaign_status = charity[Slug].campaign_status
           /\ charity'[Slug].is_live = charity[Slug].is_live
           /\ admin_ok => flash' = "Cannot set LIVE"]_vars

\* the operator was refused the change to live on a campaign that is not
\* live and has no payout account
C15_Witness ==
    /\ flash = "Cannot set LIVE"
    /\ ~StartsWithAcct(charity[Slug].stripe_account_id)
    /\ charity[Slug].campaign_status # "live"
    /\ ~charity[Slug].is_live

\* C16: every checkout session that start_hold creates authorises the larger
\* of the pending request's hold amount and 100 times the campaign's
\* max_number, so at least the highest ticket value of that moment.
C16_HoldAtLeastMaxTicket ==
    [][\A p \in Settlers : \A gateway_ok \in BOOLEAN :
        (start_hold(p, Slug, gateway_ok) /\ Len(intents') = Len(intents) + 1)
        => \E pe \in sess[p].pending_entry :
              /\ intents'[Len(intents')].amount =
                     Max(pe.hold_amount_pence, 100 * charity[Slug].max_number)
              /\ intents'[Len(intents')].amount >= 100 * charity[Slug].max_number
       ]_vars

\* a hold was raised above the pending request's amount to the campaign's
\* highest ticket value
C16_Witness ==
    \E p \in Settlers : \E pi \in DOMAIN intents : \E pe \in sess[p].pending_entry :
        /\ intents[pi].donor = p
        /\ pe.hold_amount_pence < intents[pi].amount
        /\ intents[pi].amount = 100 * charity[Slug].max_number

\* C17: start_hold for a campaign without a payout account ends the same way
\* whatever the gateway would answer, so without asking it: no checkout
\* session, no Entry, no change to the campaign or the session.  When the
\* gateway refuses the authorisation, nothing is stored either.
C17_FailedHoldStoresNothing ==
    [][\A p \in Settlers : \A gateway_ok \in BOOLEAN :
        (/\ start_hold(p, Slug, gateway_ok)
         /\ sess[p].pending_entry # {}
         /\ ~StartsWithAcct(charity[Slug].stripe_account_id) \/ ~gateway_ok)
        => /\ req'[p].result =
                  IF ~StartsWithAcct(charity[Slug].stripe_account_id)
                  THEN "payout_missing" ELSE "hold_failed"
           /\ UNCHANGED <<charity, entries, nextId, sess, intents, gwCalls>>
       ]_vars

\* a donor with a pending request was told that the campaign has no payout
\* account
C17_Witness ==
    \E p \in Settlers :
        /\ req[p].result = "payout_missing"
        /\ sess[p].pending_entry # {}
        /\ ~StartsWithAcct(charity[Slug].stripe_account_id)
        /\ intents = <<>>

\* C18: a hold callback whose checkout session the gateway does not return,
\* or whose PaymentIntent has a status other than requires_capture or
\* succeeded, ends at once and creates no Entry; no Entry ever carries a
\* PaymentIntent that was never authorised.
C18_EntryNeedsAuthorisedHold ==
    [][/\ \A p \in Settlers : \A sid \in 1..MaxIntents :
           (/\ hs_verify(p, Slug, sid)
            /\ \/ sid \notin DOMAIN intents
               \/ intents[sid].status \notin {"requires_capture", "succeeded"})
           => /\ req'[p].pc = "idle"
              /\ req'[p].result \in {"not_verified", "not_completed"}
              /\ entries' = entries
              /\ nextId' = nextId
       /\ \A e \in entries' :
           e.payment_intent_id # 0 =>
               intents'[e.payment_intent_id].status # "requires_payment_method"
      ]_vars

\* the callback was replayed for a hold that had been released, the only
\* hold there is, and was turned away
C18_Witness ==
    \E p \in Settlers :
        /\ req[p].result = "not_completed"
        /\ intents # <<>>
        /\ \A pi \in DOMAIN intents : intents[pi].status = "canceled"
        /\ Cardinality(entries) = 1

(***************************************************************************)
(* Claims on the reveal.                                                    *)
(***************************************************************************)
\* C19: once a session has been shown the number of an Entry, every later
\* reveal request for that Entry from that session is answered 409 and
\* discloses nothing, whatever hold callbacks and reveals came in between.
C19_RevealOnce ==
    [][\A p \in Donors : \A entry_id \in 1..MaxEntryId :
        (/\ api_reveal_number(p, entry_id)
         /\ \E r \in reveals : r.to = p /\ r.entry_id = entry_id)
        => /\ req'[p].result = "409"
           /\ reveals' = reveals]_vars

\* C20: a reveal request for an Entry from a session whose hold callback did
\* not create it is answered 403, discloses nothing and marks nothing as
\* revealed in any session.
C20_RevealOnlyToCreator ==
    [][\A p \in Donors : \A e \in entries :
        (/\ api_reveal_number(p, e.id)
         /\ \/ e.payment_intent_id = 0
            \/ intents[e.payment_intent_id].donor # p)
        => /\ req'[p].result = "403"
           /\ reveals' = reveals
           /\ sess' = sess]_vars

\* a session was refused the number of an Entry that another session's
\* callback created and that session has been shown
C20_Witness ==
    \E p \in Donors : \E e \in entries : \E r \in reveals :
        /\ req[p].result = "403"
        /\ e.payment_intent_id # 0
        /\ intents[e.payment_intent_id].donor # p
        /\ r.entry_id = e.id /\ r.to # p
        /\ \A x \in reveals : x.to # p

(***************************************************************************)
(* Claims on the paid state.                                                *)
(***************************************************************************)
\* C21: of the webhook and confirm_payment, the one that reaches an Entry
\* second finds it paid and changes neither paid nor paid_at; and the Entry
\* is paid once both are done.
C21_SecondPathChangesNothing ==
    [][/\ \A e \in entries :
           e.paid => \E f \in entries' :
                        f.id = e.id /\ f.paid /\ f.paid_at = e.paid_at
       /\ \A p \in Settlers :
           (req[p].pc = "cp_commit" /\ req'[p].pc = "idle") =>
               \E f \in entries' : f.id = req[p].entry_id /\ f.paid
      ]_vars

\* C22: the number of an Entry is the one it was created with: no step
\* changes the number of an existing Entry.
C22_NumberImmutable ==
    [][\A e \in entries : \A f \in entries' :
          f.id = e.id => f.number = e.number]_vars

\* C23: paid is set once and only by settlement: a paid Entry stays paid, and
\* an Entry becomes paid only through confirm_payment or the webhook.
C23_PaidOnlyBySettlement ==
    [][\A e \in entries : \A f \in entries' :
          f.id = e.id =>
              /\ e.paid => f.paid
              /\ (~e.paid /\ f.paid) => f.paid_at \in {"confirm", "webhook"}
      ]_vars

\* C24: with partial donation enabled, a confirm of an Entry that can be
\* settled goes to the gateway for every whole amount from 0 up to the
\* Entry's hold in whole pounds, also above the ticket number: as a capture
\* of exactly the amount times 100 pence, or as a cancel for 0.  Any other
\* amount (negative, not a number, above the hold) ends the request with a
\* rejected amount and nothing is sent to the gateway.
C24_PartialAmountRange ==
    [][\A p \in Settlers :
        /\ \A e \in entries : \A raw \in RawAmounts :
              (/\ cp_load(p, e.id, raw)
               /\ charity[e.charity_id].optional_donation_enabled
               /\ Settleable(e))
              => IF /\ raw.numeric
                    /\ raw.value >= 0
                    /\ raw.value <= e.hold_amount_pence \div 100
                 THEN /\ req'[p].pc = IF raw.value = 0 THEN "cp_cancel"
                                                       ELSE "cp_capture"
                      /\ req'[p].amount_pence = raw.value * 100
                      /\ req'[p].pi = e.payment_intent_id
                 ELSE /\ req'[p].pc = "idle"
                      /\ req'[p].result \in {"exceeds_hold", "invalid_amount"}
                      /\ gwCalls' = gwCalls
        /\ (req[p].pc = "cp_capture" /\ req'[p] # req[p]) =>
              \E c \in gwCalls' :
                  /\ c.op = "capture" /\ c.by = p
                  /\ c.amount = req[p].amount_pence
                  /\ c.pi = req[p].pi
       ]_vars

\* more than the ticket number was captured from a hold
C24_Witness ==
    \E c \in gwCalls : \E pi \in DOMAIN intents :
        /\ c.optional_ok /\ c.op = "capture"
        /\ c.amount > c.number * 100
        /\ c.pi = pi
        /\ intents[pi].amount_captured = c.amount

\* C25: a confirm that found partial donation disabled never sends a cancel
\* to the gateway, and when it marks the Entry paid the gateway has captured
\* at least 100 pence from the Entry's hold.
C25_ReleaseNeedsPartial ==
    [][/\ \A c \in gwCalls' : c.op = "cancel" => c.optional_ok
       /\ \A p \in Settlers :
           (/\ req[p].pc = "cp_commit" /\ req'[p].pc = "idle"
            /\ ~req[p].optional_ok)
           => /\ req'[p].result = "confirmed"
              /\ intents'[req[p].pi].status = "succeeded"
              /\ intents'[req[p].pi].amount_captured >= 100
      ]_vars

\* an Entry was marked paid by a confirm that found partial donation
\* disabled, after its capture
C25_Witness ==
    \E c \in gwCalls : \E e \in entries :
        /\ ~c.optional_ok /\ c.op = "capture"
        /\ e.id = c.entry_id /\ e.paid /\ e.paid_at = "confirm"
        /\ intents[c.pi].amount_captured = c.amount
        /\ c.amount >= 100

\* C26: in every reachable state each hold for which a gateway capture
\* succeeded is referenced by an existing Entry.
C26_CapturedHoldHasEntry ==
    \A pi \in DOMAIN intents :
        intents[pi].status = "succeeded"
        => \E e \in entries : e.payment_intent_id = pi

\* C27: no request made with a partner session creates, edits, deletes or
\* changes the paid state of an Entry of a campaign other than the one the
\* partner is logged in for.
C27_PartnerOwnCampaignOnly ==
    [][PartnerRequest =>
          \A e \in entries \cup entries' :
              e.charity_id # partner.partner_slug
              => (e \in entries /\ e \in entries')
      ]_vars

\* C28: in hold_success a commit refused by the unique constraint stores
\* nothing and leads to one more iteration, which picks among the numbers
\* free at that moment; the iterations stop after 12 refused commits; a
\* request that leaves the loop without an Entry has stored nothing and is
\* sent back to the campaign page; and every request that entered the loop
\* returns.
C28_BoundedRetry ==
    /\ [][\A p \in Donors :
        LET r == req[p] IN
        /\ req'[p].tries <= max_retries
        /\ (r.pc = "hs_commit" /\ req'[p] # r) =>
              \/ /\ req'[p].result = "assigned"
                 /\ \E e \in entries' \ entries :
                        e.number = r.num /\ e.payment_intent_id = r.pi
              \/ /\ r.num \in Taken(r.slug)
                 /\ entries' = entries
                 /\ req'[p].pc = "hs_pick"
                 /\ req'[p].tries = r.tries + 1
        /\ (r.pc = "hs_pick" /\ req'[p] # r) =>
              IF r.tries < max_retries
                 /\ \E n \in 1..charity[r.slug].max_number : n \notin Taken(r.slug)
              THEN /\ req'[p].pc = "hs_commit"
                   /\ req'[p].num >= 1
                   /\ req'[p].num \notin Taken(r.slug)
                   /\ req'[p].tries = r.tries
              ELSE req'[p].pc = "hs_fail" /\ req'[p].tries = r.tries
        /\ (r.pc = "hs_fail" /\ req'[p] # r) =>
              /\ req'[p].pc = "idle"
              /\ req'[p].result = "selling_fast"
              /\ entries' = entries
              /\ sess' = sess
         ]_vars
    /\ \A p \in Donors :
           (req[p].pc \in {"hs_pick", "hs_commit", "hs_fail"})
               ~> (req[p].pc = "idle")

\* a request gave up after 12 refused commits while a number was free
C28_Witness ==
    \E p \in Donors :
        /\ req[p].result = "selling_fast"
        /\ req[p].tries = max_retries
        /\ available_numbers(Slug, charity[Slug].max_number) # {}

\* C29: when a hold callback stores an Entry with the last free number of the
\* campaign, the campaign's status is sold_out once that callback has
\* returned.
C29_LastNumberSellsOut ==
    [][\A p \in Donors :
          (/\ req[p].pc = "hs_commit"
           /\ req'[p].result = "assigned"
           /\ \A n \in 1..charity'[req[p].slug].max_number :
                  \E e \in entries' : e.charity_id = req[p].slug /\ e.number = n)
          => charity'[req[p].slug].campaign_status = "sold_out"
      ]_vars

C31_RevealBeforeSettle ==
    /\ \A c \in gwCalls : \E r \in reveals : r.entry_id = c.entry_id
    /\ \A e \in entries :
           (e.paid /\ e.paid_at = "confirm")
           => \E r \in reveals : r.entry_id = e.id

\* C32: a hold callback that creates an Entry leaves the session without a
\* pending request, and a hold callback step that creates no Entry leaves the
\* session's pending request as it was.
C32_PendingConsumedOnCreate ==
    [][\A p \in Settlers :
        LET Callback ==
                \/ /\ req[p].pc \in {"hs_assign", "hs_pick", "hs_commit", "hs_fail"}
                   /\ req'[p] # req[p]
                \/ \E sid \in 1..MaxIntents : hs_verify(p, Slug, sid)
        IN  Callback =>
                IF entries' # entries
                THEN sess'[p].pending_entry = {}
                ELSE sess'[p].pending_entry = sess[p].pending_entry
      ]_vars

\* a callback created an Entry from a pending request, which is gone, and a
\* later callback of the same donor was refused for lack of one
C32_Witness ==
    \E p \in Settlers :
        /\ req[p].result = "no_details"
        /\ sess[p].pending_entry = {}
        /\ \E e \in entries : e.id = sess[p].reveal_entry_id

\* C33: in every reachable state each campaign's max_number is at least 1,
\* over campaign creation and operator edits.
C33_CapacityAtLeastOne ==
    \A slug \in DOMAIN charity : charity[slug].max_number >= 1

\* C34: the donor flow creates a hold (start_hold) or an Entry (hold_success)
\* only while the campaign's status is live.
C34_FlowNeedsLiveStatus ==
    [][/\ Len(intents') > Len(intents)
            => charity[Slug].campaign_status = "live"
       /\ \A e \in entries' \ entries :
            e.payment_intent_id # 0
            => charity[e.charity_id].campaign_status = "live"
      ]_vars

\* C35: in every reachable state a campaign whose campaign_status is live
\* has a stripe_account_id beginning with "acct_".
C35_LiveHasPayout ==
    \A slug \in DOMAIN charity :
        charity[slug].campaign_status = "live"
        => StartsWithAcct(charity[slug].stripe_account_id)

\* C36: confirm_payment reaches the statement that marks the Entry paid only
\* from a gateway call of the same request that the gateway accepted in that
\* step (a capture, or a cancel for amount 0), and an Entry becomes paid by
\* confirm_payment only in that statement.
C36_PaidAfterGatewayCall ==
    [][/\ \A p \in Settlers :
           (req'[p].pc = "cp_commit" /\ req[p].pc # "cp_commit")
           => /\ req[p].pc \in {"cp_capture", "cp_cancel"}
              /\ req'[p].entry_id = req[p].entry_id
              /\ \E c \in gwCalls' :
                    /\ c.by = p /\ c.entry_id = req[p].entry_id /\ c.pi = req[p].pi
                    /\ c.op = (IF req[p].pc = "cp_capture" THEN "capture" ELSE "cancel")
              /\ intents[req[p].pi].status = "requires_capture"
              /\ intents'[req[p].pi].status =
                    (IF req[p].pc = "cp_capture" THEN "succeeded" ELSE "canceled")
       /\ \A e \in entries' :
           (e.paid /\ e.paid_at = "confirm" /\ e \notin entries)
           => \E p \in Settlers :
                 /\ req[p].pc = "cp_commit"
                 /\ req[p].entry_id = e.id
                 /\ req'[p].pc = "idle"
      ]_vars

\* an Entry was marked paid by the request whose capture, the only gateway
\* call ever made for it, the gateway had accepted
C36_Witness ==
    \E p \in Settlers : \E e \in entries :
        /\ e.paid /\ e.paid_at = "confirm"
        /\ req[p].result = "confirmed"
        /\ Cardinality(CallsFor(e.id)) = 1
        /\ \A c \in CallsFor(e.id) :
               /\ c.by = p /\ c.op = "capture"
               /\ intents[c.pi].status = "succeeded"
               /\ intents[c.pi].amount_captured = c.amount

\* C37: with partial donation disabled, a confirm of an unpaid Entry that the
\* donor hold flow created is never rejected by the amount checks: it goes on
\* to capture the ticket number in pounds, which the Entry's hold covers.
C37_HoldFlowEntrySettles ==
    [][\A p \in Settlers : \A e \in entries : \A raw \in RawAmounts :
        (/\ cp_load(p, e.id, raw)
         /\ ~charity[e.charity_id].optional_donation_enabled
         /\ Settleable(e))
        => /\ req'[p].pc = "cp_capture"
           /\ req'[p].amount_pence = e.number * 100
           /\ req'[p].amount_pence <= e.hold_amount_pence
      ]_vars

\* C38: every Entry that hold_success creates is in the campaign of the
\* callback and carries the details of the pending request that the same
\* session holds for that campaign; a callback whose session has no pending
\* request for its campaign creates no Entry.
C38_EntryFromOwnPending ==
    [][\A p \in Donors :
        /\ (req[p].pc = "hs_commit" /\ req'[p] # req[p]) =>
              \A e \in entries' \ entries :
                  /\ e.charity_id = req[p].slug
                  /\ \E pe \in sess[p].pending_entry :
                        pe.slug = e.charity_id /\ pe.name = e.name
        /\ \A slug \in DOMAIN charity : \A sid \in 1..MaxIntents :
              (/\ hs_verify(p, slug, sid)
               /\ ~\E pe \in sess[p].pending_entry : pe.slug = slug)
              => req'[p].pc = "idle" /\ entries' = entries
      ]_vars

\* a donor with a pending request for one campaign was refused by the
\* callback of the other, and Entries of both campaigns exist
C38_Witness ==
    /\ \E p \in Donors :
        /\ req[p].result = "no_details"
        /\ sess[p].pending_entry # {}
    /\ \E e1, e2 \in entries :
        /\ e1.charity_id = Slug /\ e2.charity_id = OtherSlug
        /\ e1.name # 0 /\ e2.name # 0

\* C39: for a campaign whose skill question is enabled but has no question or
\* no correct answer, a donor with a pending request gets the authorise page
\* from authorise_hold, and start_hold goes on to the hold, instead of a
\* redirect to the skill gate.
C39_MisconfiguredGateSkipped ==
    [][\A p \in Settlers :
        LET c == charity[Slug]
            misconfigured == c.skill_enabled /\ ~c.skill_configured
            pending == \E pe \in sess[p].pending_entry : pe.slug = Slug
        IN  /\ (authorise_hold(p, Slug) /\ misconfigured /\ pending)
                => req'[p].result = "authorise_page"
            /\ (start_hold(p, Slug, TRUE) /\ misconfigured /\ pending)
                => req'[p].result # "to_skill_gate"
      ]_vars

====
